---- MODULE Spec2Model ----
(***************************************************************************)
(* ExpandScreen virtual display driver: the adapter / monitor / swap-chain *)
(* state machine of src/ExpandScreen.Driver (Adapter.cpp, Monitor.cpp,     *)
(* Ioctl.cpp, SwapChain.cpp).  The host (IddCx / WDF) is the environment:  *)
(* it answers every call the driver makes with one of its possible         *)
(* statuses and invokes the driver's callbacks.                            *)
(***************************************************************************)
EXTENDS Integers, Sequences, FiniteSets, TLC

(***************************************************************************)
(* Bounds of the model.                                                    *)
(***************************************************************************)
\* control-plane requests the user-mode caller issues
MaxIoctlRequests == 2
\* swap-chain handles the host hands out
MaxSwapChains == 2
\* invocations of ProcessSwapChainFrame
MaxFrames == 2
\* largest mode-buffer size the host asks the mode callbacks with
MaxModeRequest == 9
\* calls of the commit-modes callback
MaxCommits == 2
\* the widths and heights GenerateEdid is called with: those of the mode table,
\* which include the 1920 x 1080 of CreateMonitor, and other common ones
EdidWidths == {640, 800, 1024, 1280, 1366, 1920, 2560, 3840}
EdidHeights == {480, 600, 720, 768, 1080, 1440, 1600, 2160}

(***************************************************************************)
(* NTSTATUS values (signed 32-bit) and the NT_SUCCESS test.                *)
(***************************************************************************)
STATUS_SUCCESS == 0
STATUS_PENDING == 259
STATUS_UNSUCCESSFUL == -1073741823
STATUS_NOT_IMPLEMENTED == -1073741822
STATUS_INVALID_DEVICE_REQUEST == -1073741808
STATUS_BUFFER_TOO_SMALL == -1073741789
STATUS_INSUFFICIENT_RESOURCES == -1073741670
STATUS_INVALID_PARAMETER == -1073741811

NT_SUCCESS(Status) == Status >= 0

\* the failure the host answers a driver call with when it does not accept it
HostFailures == {STATUS_UNSUCCESSFUL}

(***************************************************************************)
(* Control codes and output-record sizes of the control plane.             *)
(***************************************************************************)
IOCTL_EXPANDSCREEN_CREATE_MONITOR == 2301952
IOCTL_EXPANDSCREEN_DESTROY_MONITOR == 2301956
IOCTL_EXPANDSCREEN_GET_ADAPTER_INFO == 2318344
\* a control code the driver does not define (function 0x803)
IOCTL_UNDEFINED == 2301964

SIZEOF_CREATE_MONITOR_OUTPUT == 8
SIZEOF_ADAPTER_INFO == 8
MaxMonitorsReported == 4
\* IDDCX_ADAPTER_CAPS.MaxMonitorsSupported as InitializeIddCxAdapter sets it
MaxMonitorsSupported == 4

NULL == 0

\* size of the descriptor buffer
EDID_SIZE == 256

\* the two callers of CreateMonitor
Callers == {"InitFinished", "Ioctl"}

VARIABLES
    g_MonitorIdCounter,
    MonitorCount,
    monitors,
    cm,
    init,
    ioctl,
    completion,
    frame,
    lastSwapCall,
    unassigned,
    nextSwapChain,
    acquiredCount,
    releaseCount,
    idLog,
    succCreates,
    succDestroys,
    device,
    edid,
    modeOut,
    createRuns

vars == <<g_MonitorIdCounter, MonitorCount, monitors, cm, init, ioctl, completion,
          frame, lastSwapCall, unassigned, nextSwapChain, acquiredCount, releaseCount,
          idLog, succCreates, succDestroys, device, edid, modeOut, createRuns>>

driverVars == <<g_MonitorIdCounter, MonitorCount, monitors, cm, init, ioctl, completion,
                idLog, succCreates, succDestroys>>
frameVars == <<frame, lastSwapCall, acquiredCount, releaseCount>>
swapVars == <<unassigned, nextSwapChain>>
deviceVars == <<device>>
bufferVars == <<edid, modeOut, createRuns>>

(***************************************************************************)
(* Helpers translated from the source.                                     *)
(***************************************************************************)
\* InterlockedIncrement: the incremented value, which is both stored and returned
InterlockedDecrement(Addend) == Addend - 1
InterlockedIncrement(Addend) == Addend + 1

\* MONITOR_CONTEXT as CreateMonitor initialises it, with the host's view of the
\* monitor object (callbacks registered, arrival notified)
NewMonitorContext(ConnectorIndex) ==
    [MonitorId |-> ConnectorIndex, IsActive |-> FALSE, SwapChain |-> NULL,
     callbacks |-> FALSE, arrived |-> FALSE]

IdleCreate == [pc |-> "idle", ConnectorIndex |-> 0, Monitor |-> NULL,
               status |-> STATUS_SUCCESS]

NoCompletion == [IoControlCode |-> 0, status |-> STATUS_SUCCESS, bytesReturned |-> 0,
                 out |-> <<>>, createStatus |-> <<>>]

\* the host has seen no swap-chain call yet
NoSwapChainCall == [op |-> "none", SwapChain |-> NULL, pSurface |-> NULL,
                    TerminateThread |-> FALSE, afterUnassign |-> FALSE]

IdleFrame == [pc |-> "idle", SwapChain |-> NULL, TerminateThread |-> FALSE,
              pSurface |-> NULL, DirtyRectCount |-> 0, status |-> STATUS_SUCCESS,
              calls |-> 0]

\* DEVICE_CONTEXT.Adapter and the position of ExpandScreenEvtDeviceAdd: the context
\* is zeroed when the device object is created (Driver.cpp lines 138-140)
DeviceNotAdded == [pc |-> "notadded", Adapter |-> NULL, status |-> STATUS_SUCCESS,
                   failedAt |-> "none"]

\* the device after ExpandScreenEvtDeviceAdd returned success
DeviceAdded == [pc |-> "added", Adapter |-> 1, status |-> STATUS_SUCCESS,
                failedAt |-> "none"]

\* GenerateEdid has not been called
NoEdid == [pc |-> "idle", BufferIsNull |-> FALSE, Width |-> 0, Height |-> 0,
           EdidBuffer |-> <<>>, status |-> STATUS_SUCCESS]

\* the host has not asked for modes and has committed none
NoModes == [DefaultRequest |-> -1, Default |-> <<>>, TargetRequest |-> -1,
            Target |-> <<>>, CommitCalls |-> 0, CommitPathCount |-> -1,
            CommitStatus |-> <<>>]

\* no pair of create-monitor requests is being compared
NoCreateRuns == [pc |-> "idle", A |-> <<>>, B |-> <<>>, pre |-> <<>>, host |-> <<>>,
                 outA |-> <<>>, outB |-> <<>>]

\* the adapter, monitor and swap-chain state of a device that has no monitor yet
NoMonitorsYet ==
    /\ g_MonitorIdCounter = 0
    /\ MonitorCount = 0
    /\ monitors = <<>>
    /\ cm = [c \in Callers |-> IdleCreate]
    /\ init = [pc |-> "notcalled", AdapterInitStatus |-> STATUS_SUCCESS,
                ret |-> STATUS_SUCCESS]
    /\ ioctl = [pc |-> "idle", requests |-> 0]
    /\ completion = NoCompletion
    /\ frame = IdleFrame
    /\ lastSwapCall = NoSwapChainCall
    /\ unassigned = {}
    /\ nextSwapChain = 1
    /\ acquiredCount = 0
    /\ releaseCount = 0
    /\ idLog = <<>>
    /\ succCreates = 0
    /\ succDestroys = 0

\* the state when ExpandScreenEvtDeviceAdd has returned success
Init ==
    /\ device = DeviceAdded
    /\ edid = NoEdid
    /\ modeOut = NoModes
    /\ createRuns = NoCreateRuns
    /\ NoMonitorsYet

\* the context of a monitor whose creation has succeeded
ArrivedMonitor(ConnectorIndex) ==
    [NewMonitorContext(ConnectorIndex) EXCEPT !.callbacks = TRUE, !.arrived = TRUE]

\* three monitors exist: init-finished created the default monitor (id 1), then
\* two control requests created one monitor each (ids 2 and 4, reporting 3 and 5);
\* no request is in the handler and no swap chain was assigned
InitAtCap ==
    /\ device = DeviceAdded
    /\ edid = NoEdid
    /\ modeOut = NoModes
    /\ createRuns = NoCreateRuns
    /\ g_MonitorIdCounter = 5
    /\ MonitorCount = MaxMonitorsSupported - 1
    /\ monitors = <<ArrivedMonitor(1), ArrivedMonitor(2), ArrivedMonitor(4)>>
    /\ cm = [c \in Callers |->
               IF c = "InitFinished"
               THEN [pc |-> "idle", ConnectorIndex |-> 1, Monitor |-> 1,
                     status |-> STATUS_SUCCESS]
               ELSE [pc |-> "idle", ConnectorIndex |-> 4, Monitor |-> 3,
                     status |-> STATUS_SUCCESS]]
    /\ init = [pc |-> "done", AdapterInitStatus |-> STATUS_SUCCESS,
                ret |-> STATUS_SUCCESS]
    /\ ioctl = [pc |-> "idle", requests |-> 0]
    /\ completion = [IoControlCode |-> IOCTL_EXPANDSCREEN_CREATE_MONITOR,
                      status |-> STATUS_SUCCESS,
                      bytesReturned |-> SIZEOF_CREATE_MONITOR_OUTPUT,
                      out |-> <<[MonitorId |-> 5, Status |-> STATUS_SUCCESS]>>,
                      createStatus |-> <<STATUS_SUCCESS>>]
    /\ frame = IdleFrame
    /\ lastSwapCall = NoSwapChainCall
    /\ unassigned = {}
    /\ nextSwapChain = 1
    /\ acquiredCount = 0
    /\ releaseCount = 0
    /\ idLog = <<1, 2, 3, 4, 5>>
    /\ succCreates = 3
    /\ succDestroys = 0

\* five monitors exist, one more than the adapter's MaxMonitorsSupported: init-finished
\* created the default monitor (id 1), then four control requests created one
\* monitor each (ids 2, 4, 6 and 8, reporting 3, 5, 7 and 9)
InitAboveCap ==
    /\ device = DeviceAdded
    /\ edid = NoEdid
    /\ modeOut = NoModes
    /\ createRuns = NoCreateRuns
    /\ g_MonitorIdCounter = 9
    /\ MonitorCount = MaxMonitorsSupported + 1
    /\ monitors = <<ArrivedMonitor(1), ArrivedMonitor(2), ArrivedMonitor(4),
                    ArrivedMonitor(6), ArrivedMonitor(8)>>
    /\ cm = [c \in Callers |->
               IF c = "InitFinished"
               THEN [pc |-> "idle", ConnectorIndex |-> 1, Monitor |-> 1,
                     status |-> STATUS_SUCCESS]
               ELSE [pc |-> "idle", ConnectorIndex |-> 8, Monitor |-> 5,
                     status |-> STATUS_SUCCESS]]
    /\ init = [pc |-> "done", AdapterInitStatus |-> STATUS_SUCCESS,
                ret |-> STATUS_SUCCESS]
    /\ ioctl = [pc |-> "idle", requests |-> 0]
    /\ completion = [IoControlCode |-> IOCTL_EXPANDSCREEN_CREATE_MONITOR,
                      status |-> STATUS_SUCCESS,
                      bytesReturned |-> SIZEOF_CREATE_MONITOR_OUTPUT,
                      out |-> <<[MonitorId |-> 9, Status |-> STATUS_SUCCESS]>>,
                      createStatus |-> <<STATUS_SUCCESS>>]
    /\ frame = IdleFrame
    /\ lastSwapCall = NoSwapChainCall
    /\ unassigned = {}
    /\ nextSwapChain = 1
    /\ acquiredCount = 0
    /\ releaseCount = 0
    /\ idLog = <<1, 2, 3, 4, 5, 6, 7, 8, 9>>
    /\ succCreates = 5
    /\ succDestroys = 0

\* GenerateEdid is about to be called with a buffer, a width and a height
InitEdid ==
    /\ device = DeviceAdded
    /\ edid \in [pc : {"idle"}, BufferIsNull : BOOLEAN, Width : EdidWidths,
                  Height : EdidHeights, EdidBuffer : {<<>>},
                  status : {STATUS_SUCCESS}]
    /\ modeOut = NoModes
    /\ createRuns = NoCreateRuns
    /\ NoMonitorsYet

\* the state when the framework calls ExpandScreenEvtDeviceAdd
InitDeviceAdd ==
    /\ device = DeviceNotAdded
    /\ edid = NoEdid
    /\ modeOut = NoModes
    /\ createRuns = NoCreateRuns
    /\ NoMonitorsYet

(***************************************************************************)
(* CreateMonitor (Monitor.cpp), one step per call into the host.           *)
(***************************************************************************)
\* lines 59-60 with a plain read in place of the interlocked increment
CreateMonitor_Enter_NoStore(c) ==
    /\ cm[c].pc = "idle"
    /\ cm' = [cm EXCEPT ![c] = [pc |-> "create",
                                ConnectorIndex |-> g_MonitorIdCounter + 1,
                                Monitor |-> NULL, status |-> STATUS_SUCCESS]]
    /\ idLog' = Append(idLog, g_MonitorIdCounter + 1)
    /\ UNCHANGED g_MonitorIdCounter

\* lines 41-79: the connector index is drawn from g_MonitorIdCounter; GenerateEdid
\* gets a non-null buffer and succeeds
CreateMonitor_Enter(c) ==
    /\ cm[c].pc = "idle"
    /\ g_MonitorIdCounter' = InterlockedIncrement(g_MonitorIdCounter)
    /\ cm' = [cm EXCEPT ![c] = [pc |-> "create",
                                ConnectorIndex |-> g_MonitorIdCounter',
                                Monitor |-> NULL, status |-> STATUS_SUCCESS]]
    /\ idLog' = Append(idLog, g_MonitorIdCounter')

\* lines 84-107: IddCxMonitorCreate, then the context of the new object
CreateMonitor_IddCxMonitorCreate(c) ==
    /\ cm[c].pc = "create"
    /\ \E status \in {STATUS_SUCCESS} \cup HostFailures :
         IF NT_SUCCESS(status)
         THEN /\ monitors' = Append(monitors, NewMonitorContext(cm[c].ConnectorIndex))
              /\ cm' = [cm EXCEPT ![c].pc = "setcb", ![c].Monitor = Len(monitors) + 1]
         ELSE /\ cm' = [cm EXCEPT ![c].pc = "ret", ![c].status = status]
              /\ UNCHANGED monitors
    /\ UNCHANGED <<g_MonitorIdCounter, MonitorCount, init, ioctl, completion, idLog,
                   succCreates, succDestroys, frameVars, swapVars, deviceVars, bufferVars>>

\* lines 109-123 with the status of IddCxMonitorSetCallbacks not tested
CreateMonitor_IddCxMonitorSetCallbacks_Unchecked(c) ==
    /\ cm[c].pc = "setcb"
    /\ \E status \in {STATUS_SUCCESS} \cup HostFailures :
         /\ monitors' = [monitors EXCEPT ![cm[c].Monitor].callbacks = NT_SUCCESS(status)]
         /\ cm' = [cm EXCEPT ![c].pc = "arrival"]
    /\ UNCHANGED <<g_MonitorIdCounter, MonitorCount, init, ioctl, completion, idLog,
                   succCreates, succDestroys, frameVars, swapVars, deviceVars, bufferVars>>

\* lines 109-123: IddCxMonitorSetCallbacks
CreateMonitor_IddCxMonitorSetCallbacks(c) ==
    /\ cm[c].pc = "setcb"
    /\ \E status \in {STATUS_SUCCESS} \cup HostFailures :
         IF NT_SUCCESS(status)
         THEN /\ monitors' = [monitors EXCEPT ![cm[c].Monitor].callbacks = TRUE]
              /\ cm' = [cm EXCEPT ![c].pc = "arrival"]
         ELSE /\ cm' = [cm EXCEPT ![c].pc = "ret", ![c].status = status]
              /\ UNCHANGED monitors
    /\ UNCHANGED <<g_MonitorIdCounter, MonitorCount, init, ioctl, completion, idLog,
                   succCreates, succDestroys, frameVars, swapVars, deviceVars, bufferVars>>

\* lines 125-137: IddCxMonitorArrival and the return
CreateMonitor_IddCxMonitorArrival(c) ==
    /\ cm[c].pc = "arrival"
    /\ \E status \in {STATUS_SUCCESS} \cup HostFailures :
         IF NT_SUCCESS(status)
         THEN /\ monitors' = [monitors EXCEPT ![cm[c].Monitor].arrived = TRUE]
              /\ cm' = [cm EXCEPT ![c].pc = "ret", ![c].status = STATUS_SUCCESS]
              /\ succCreates' = succCreates + 1
         ELSE /\ cm' = [cm EXCEPT ![c].pc = "ret", ![c].status = status]
              /\ UNCHANGED <<monitors, succCreates>>
    /\ UNCHANGED <<g_MonitorIdCounter, MonitorCount, init, ioctl, completion, idLog,
                   succDestroys, frameVars, swapVars, deviceVars, bufferVars>>

(***************************************************************************)
(* ExpandScreenEvtAdapterInitFinished (Adapter.cpp).                       *)
(***************************************************************************)
\* the statuses the host reports the adapter's initialisation with
AdapterInitStatuses ==
    {STATUS_SUCCESS, STATUS_INSUFFICIENT_RESOURCES} \cup HostFailures

\* line 140 with the test left out
AdapterInitFailed_Never(AdapterInitStatus) == FALSE

\* line 140: the test of the status the host reports
AdapterInitFailed(AdapterInitStatus) == ~NT_SUCCESS(AdapterInitStatus)

\* lines 126-147: the reported status is returned, or CreateMonitor is entered
ExpandScreenEvtAdapterInitFinished_Enter ==
    /\ init.pc = "notcalled"
    /\ \E AdapterInitStatus \in AdapterInitStatuses :
         IF AdapterInitFailed(AdapterInitStatus)
         THEN /\ init' = [pc |-> "done", AdapterInitStatus |-> AdapterInitStatus,
                          ret |-> AdapterInitStatus]
              /\ UNCHANGED <<g_MonitorIdCounter, cm, idLog>>
         ELSE /\ init' = [pc |-> "create", AdapterInitStatus |-> AdapterInitStatus,
                          ret |-> STATUS_SUCCESS]
              /\ CreateMonitor_Enter("InitFinished")
    /\ UNCHANGED <<MonitorCount, monitors, ioctl, completion, succCreates,
                   succDestroys, frameVars, swapVars, deviceVars, bufferVars>>

\* the monitor count after CreateMonitor returned, with the count held at the
\* adapter's cap
CountAfterCreate_Capped(status, count) ==
    IF NT_SUCCESS(status) /\ count < MaxMonitorsSupported
    THEN InterlockedIncrement(count) ELSE count

\* the monitor count after CreateMonitor returned, counting failures too
CountAfterCreate_Always(status, count) == InterlockedIncrement(count)

\* the monitor count after CreateMonitor returned status
CountAfterCreate(status, count) ==
    IF NT_SUCCESS(status) THEN InterlockedIncrement(count) ELSE count

\* lines 149-162 with the creation's failure swallowed
InitFinishedResult_Swallowed(status) == STATUS_SUCCESS

\* lines 149-162: what init-finished returns after CreateMonitor returned status
InitFinishedResult(status) ==
    IF NT_SUCCESS(status) THEN STATUS_SUCCESS ELSE status

\* lines 149-163: CreateMonitor has returned
ExpandScreenEvtAdapterInitFinished_Return ==
    /\ init.pc = "create"
    /\ cm["InitFinished"].pc = "ret"
    /\ MonitorCount' = CountAfterCreate(cm["InitFinished"].status, MonitorCount)
    /\ init' = [init EXCEPT !.pc = "done",
                            !.ret = InitFinishedResult(cm["InitFinished"].status)]
    /\ cm' = [cm EXCEPT !["InitFinished"].pc = "idle"]
    /\ UNCHANGED <<g_MonitorIdCounter, monitors, ioctl, completion, idLog, succCreates,
                   succDestroys, frameVars, swapVars, deviceVars, bufferVars>>

(***************************************************************************)
(* ExpandScreenEvtIoDeviceControl (Ioctl.cpp).  The default queue is       *)
(* sequential (line 48): one request is in the handler at a time.          *)
(***************************************************************************)
\* WdfRequestCompleteWithInformation (line 221) with the output buffer as written
Complete(code, status, bytesReturned, out, createStatus) ==
    /\ completion' = [IoControlCode |-> code, status |-> status,
                      bytesReturned |-> bytesReturned, out |-> out,
                      createStatus |-> createStatus]
    /\ ioctl' = [pc |-> "idle", requests |-> ioctl.requests]

\* lines 110-150: both buffers are retrieved, then CreateMonitor is entered
ExpandScreenEvtIoDeviceControl_CreateMonitor ==
    /\ ioctl.pc = "idle"
    /\ ioctl.requests < MaxIoctlRequests
    /\ \E inputOk \in BOOLEAN, outputOk \in BOOLEAN :
         IF inputOk /\ outputOk
         THEN /\ ioctl' = [pc |-> "create", requests |-> ioctl.requests + 1]
              /\ CreateMonitor_Enter("Ioctl")
              /\ UNCHANGED completion
         ELSE /\ completion' = [IoControlCode |-> IOCTL_EXPANDSCREEN_CREATE_MONITOR,
                                status |-> STATUS_BUFFER_TOO_SMALL,
                                bytesReturned |-> 0, out |-> <<>>,
                                createStatus |-> <<>>]
              /\ ioctl' = [pc |-> "idle", requests |-> ioctl.requests + 1]
              /\ UNCHANGED <<g_MonitorIdCounter, cm, idLog>>
    /\ UNCHANGED <<MonitorCount, monitors, init, succCreates, succDestroys, frameVars,
                   swapVars, deviceVars, bufferVars>>

\* lines 162-168 with the request's final status written to the record
CreateFailedOutput_FinalStatus(status) == [MonitorId |-> 0, Status |-> STATUS_SUCCESS]

\* lines 162-168: the output record of a failed creation
CreateFailedOutput(status) == [MonitorId |-> 0, Status |-> status]

\* lines 153-157: the output record of a successful creation
CreateSucceededOutput(MonitorId) == [MonitorId |-> MonitorId, Status |-> STATUS_SUCCESS]

\* lines 152-154 and 162-172: CreateMonitor has returned
ExpandScreenEvtIoDeviceControl_CreateReturned ==
    /\ ioctl.pc = "create"
    /\ cm["Ioctl"].pc = "ret"
    /\ MonitorCount' = CountAfterCreate(cm["Ioctl"].status, MonitorCount)
    /\ cm' = [cm EXCEPT !["Ioctl"].pc = "idle"]
    /\ IF NT_SUCCESS(cm["Ioctl"].status)
       THEN /\ ioctl' = [ioctl EXCEPT !.pc = "output"]
            /\ UNCHANGED completion
       ELSE Complete(IOCTL_EXPANDSCREEN_CREATE_MONITOR, STATUS_SUCCESS, 0,
                     <<CreateFailedOutput(cm["Ioctl"].status)>>,
                     <<cm["Ioctl"].status>>)
    /\ UNCHANGED <<g_MonitorIdCounter, monitors, init, idLog, succCreates,
                   succDestroys, frameVars, swapVars, deviceVars, bufferVars>>

\* lines 155-172: the id put in the output is drawn from g_MonitorIdCounter again
ExpandScreenEvtIoDeviceControl_CreateOutput ==
    /\ ioctl.pc = "output"
    /\ g_MonitorIdCounter' = InterlockedIncrement(g_MonitorIdCounter)
    /\ Complete(IOCTL_EXPANDSCREEN_CREATE_MONITOR, STATUS_SUCCESS,
                SIZEOF_CREATE_MONITOR_OUTPUT,
                <<CreateSucceededOutput(g_MonitorIdCounter')>>,
                <<cm["Ioctl"].status>>)
    /\ idLog' = Append(idLog, g_MonitorIdCounter')
    /\ UNCHANGED <<MonitorCount, monitors, cm, init, succCreates, succDestroys,
                   frameVars, swapVars, deviceVars, bufferVars>>

\* lines 174-181 and 221 with the destruction reported as done
DestroyMonitorCompletion_Done ==
    [IoControlCode |-> IOCTL_EXPANDSCREEN_DESTROY_MONITOR,
     status |-> STATUS_SUCCESS, bytesReturned |-> 0,
     out |-> <<>>, createStatus |-> <<>>]

\* lines 174-181 and 221: what a destroy-monitor request completes with
DestroyMonitorCompletion ==
    [IoControlCode |-> IOCTL_EXPANDSCREEN_DESTROY_MONITOR,
     status |-> STATUS_NOT_IMPLEMENTED, bytesReturned |-> 0,
     out |-> <<>>, createStatus |-> <<>>]

\* lines 174-181
ExpandScreenEvtIoDeviceControl_DestroyMonitor ==
    /\ ioctl.pc = "idle"
    /\ ioctl.requests < MaxIoctlRequests
    /\ completion' = DestroyMonitorCompletion
    /\ succDestroys' = succDestroys + (IF NT_SUCCESS(completion'.status) THEN 1 ELSE 0)
    /\ ioctl' = [pc |-> "idle", requests |-> ioctl.requests + 1]
    /\ UNCHANGED <<g_MonitorIdCounter, MonitorCount, monitors, cm, init, idLog,
                   succCreates, frameVars, swapVars, deviceVars, bufferVars>>

\* lines 202-203 with the count held at the number of monitors supported
AdapterInfoOutput_CountCapped(count) ==
    [MonitorCount |-> IF count < MaxMonitorsReported THEN count
                      ELSE MaxMonitorsReported,
     MaxMonitors |-> MaxMonitorsReported]

\* lines 202-203: the record written for the adapter's monitor count (the cast of
\* the LONG count to UINT keeps a count that is never negative)
AdapterInfoOutput(count) ==
    [MonitorCount |-> count, MaxMonitors |-> MaxMonitorsReported]

\* lines 183-212
ExpandScreenEvtIoDeviceControl_GetAdapterInfo ==
    /\ ioctl.pc = "idle"
    /\ ioctl.requests < MaxIoctlRequests
    /\ \E outputOk \in BOOLEAN :
         completion' =
           IF outputOk
           THEN [IoControlCode |-> IOCTL_EXPANDSCREEN_GET_ADAPTER_INFO,
                 status |-> STATUS_SUCCESS, bytesReturned |-> SIZEOF_ADAPTER_INFO,
                 out |-> <<AdapterInfoOutput(MonitorCount)>>,
                 createStatus |-> <<>>]
           ELSE [IoControlCode |-> IOCTL_EXPANDSCREEN_GET_ADAPTER_INFO,
                 status |-> STATUS_BUFFER_TOO_SMALL, bytesReturned |-> 0,
                 out |-> <<>>, createStatus |-> <<>>]
    /\ ioctl' = [pc |-> "idle", requests |-> ioctl.requests + 1]
    /\ UNCHANGED <<g_MonitorIdCounter, MonitorCount, monitors, cm, init, idLog,
                   succCreates, succDestroys, frameVars, swapVars, deviceVars, bufferVars>>

\* the control codes the switch has a case for (lines 110, 174, 183)
DefinedCodes ==
    {IOCTL_EXPANDSCREEN_CREATE_MONITOR, IOCTL_EXPANDSCREEN_DESTROY_MONITOR,
     IOCTL_EXPANDSCREEN_GET_ADAPTER_INFO}

\* lines 214-221 with the request accepted
UnknownRequestCompletion_Accepted(IoControlCode) ==
    [IoControlCode |-> IoControlCode,
     status |-> STATUS_SUCCESS, bytesReturned |-> 0,
     out |-> <<>>, createStatus |-> <<>>]

\* lines 214-221: what a request with a code of no case completes with
UnknownRequestCompletion(IoControlCode) ==
    [IoControlCode |-> IoControlCode,
     status |-> STATUS_INVALID_DEVICE_REQUEST, bytesReturned |-> 0,
     out |-> <<>>, createStatus |-> <<>>]

\* lines 214-218: the default case of the switch
ExpandScreenEvtIoDeviceControl_Default ==
    /\ ioctl.pc = "idle"
    /\ ioctl.requests < MaxIoctlRequests
    /\ \E IoControlCode \in {IOCTL_UNDEFINED} \ DefinedCodes :
         completion' = UnknownRequestCompletion(IoControlCode)
    /\ ioctl' = [pc |-> "idle", requests |-> ioctl.requests + 1]
    /\ UNCHANGED <<g_MonitorIdCounter, MonitorCount, monitors, cm, init, idLog,
                   succCreates, succDestroys, frameVars, swapVars, deviceVars, bufferVars>>

(***************************************************************************)
(* Swap-chain callbacks (Monitor.cpp).  The host calls them on monitors    *)
(* whose arrival it has accepted; the handle of an assignment is one it    *)
(* has not handed out before, and is never null.                           *)
(***************************************************************************)
Arrived == {m \in DOMAIN monitors : monitors[m].arrived}

\* lines 293-294
AssignedContext(ctx, hSwapChain) ==
    [ctx EXCEPT !.SwapChain = hSwapChain, !.IsActive = TRUE]

ExpandScreenEvtMonitorAssignSwapChain(m, hSwapChain) ==
    /\ monitors' = [monitors EXCEPT ![m] = AssignedContext(monitors[m], hSwapChain)]
    /\ nextSwapChain' = nextSwapChain + 1
    /\ UNCHANGED <<g_MonitorIdCounter, MonitorCount, cm, init, ioctl, completion, idLog,
                   succCreates, succDestroys, unassigned, frameVars, deviceVars, bufferVars>>

\* lines 324-325 with the IsActive store left out
UnassignedContext_KeepActive(ctx) == [ctx EXCEPT !.SwapChain = NULL]

\* lines 324-325
UnassignedContext(ctx) == [ctx EXCEPT !.SwapChain = NULL, !.IsActive = FALSE]

\* lines 313-328 with the stores made to every monitor's context
ExpandScreenEvtMonitorUnassignSwapChain_AllMonitors(m) ==
    /\ monitors' = [k \in DOMAIN monitors |-> UnassignedContext(monitors[k])]
    /\ unassigned' = unassigned \cup ({monitors[m].SwapChain} \ {NULL})
    /\ UNCHANGED <<g_MonitorIdCounter, MonitorCount, cm, init, ioctl, completion, idLog,
                   succCreates, succDestroys, nextSwapChain, frameVars, deviceVars, bufferVars>>

ExpandScreenEvtMonitorUnassignSwapChain(m) ==
    /\ monitors' = [monitors EXCEPT ![m] = UnassignedContext(monitors[m])]
    /\ unassigned' = unassigned \cup ({monitors[m].SwapChain} \ {NULL})
    /\ UNCHANGED <<g_MonitorIdCounter, MonitorCount, cm, init, ioctl, completion, idLog,
                   succCreates, succDestroys, nextSwapChain, frameVars, deviceVars, bufferVars>>

(***************************************************************************)
(* ProcessSwapChainFrame (SwapChain.cpp).  Nothing in the driver calls it: *)
(* the caller is a worker that passes the SWAPCHAIN_CONTEXT of a swap      *)
(* chain currently assigned to a monitor, with either value of the         *)
(* TerminateThread flag.                                                   *)
(***************************************************************************)
\* what IddCxSwapChainReleaseAndAcquireBuffer can answer an acquire with: a buffer
\* with its dirty-rectangle count, STATUS_PENDING, or a failure; the out-arguments
\* stay as zero-initialised (line 47) when no buffer is returned
AcquireOutcomes ==
    {[status |-> STATUS_SUCCESS, pSurface |-> 1, DirtyRectCount |-> d] : d \in {0, 2}}
    \cup {[status |-> s, pSurface |-> NULL, DirtyRectCount |-> 0] :
            s \in {STATUS_PENDING} \cup HostFailures}

SwapChainCall(op, ctx, pSurface) ==
    [op |-> op, SwapChain |-> ctx.SwapChain, pSurface |-> pSurface,
     TerminateThread |-> ctx.TerminateThread,
     afterUnassign |-> ctx.SwapChain \in unassigned]

\* lines 33-59: the acquire call and the test of its status
ProcessSwapChainFrame_Acquire ==
    /\ frame.pc = "idle"
    /\ frame.calls < MaxFrames
    /\ \E m \in DOMAIN monitors, TerminateThread \in BOOLEAN, r \in AcquireOutcomes :
         /\ monitors[m].SwapChain # NULL
         /\ LET ctx == [SwapChain |-> monitors[m].SwapChain,
                        TerminateThread |-> TerminateThread]
            IN /\ lastSwapCall' = SwapChainCall("acquire", ctx, NULL)
               /\ acquiredCount' = acquiredCount + (IF r.pSurface # NULL THEN 1 ELSE 0)
               /\ frame' = [pc |-> IF NT_SUCCESS(r.status) THEN "release" ELSE "idle",
                            SwapChain |-> ctx.SwapChain,
                            TerminateThread |-> ctx.TerminateThread,
                            pSurface |-> r.pSurface,
                            DirtyRectCount |-> r.DirtyRectCount,
                            status |-> r.status,
                            calls |-> frame.calls + 1]
    /\ UNCHANGED <<releaseCount, driverVars, swapVars, deviceVars, bufferVars>>

\* lines 61-93: the dirty-rectangle test (both branches do nothing) and the release
ProcessSwapChainFrame_Release ==
    /\ frame.pc = "release"
    /\ \E status \in {STATUS_SUCCESS} \cup HostFailures :
         /\ lastSwapCall' = SwapChainCall("release", frame, frame.pSurface)
         /\ releaseCount' = releaseCount + 1
         /\ frame' = [frame EXCEPT !.pc = "idle", !.status = status]
    /\ UNCHANGED <<acquiredCount, driverVars, swapVars, deviceVars, bufferVars>>

(***************************************************************************)
(* Mode callbacks (Monitor.cpp) and commit-modes (Adapter.cpp).  They read *)
(* the mode table and write the host's buffers only.                       *)
(***************************************************************************)
g_SupportedModes ==
    << [Width |-> 1920, Height |-> 1080, RefreshRate |-> 60],
       [Width |-> 1920, Height |-> 1080, RefreshRate |-> 120],
       [Width |-> 2560, Height |-> 1600, RefreshRate |-> 60],
       [Width |-> 1280, Height |-> 720, RefreshRate |-> 60],
       [Width |-> 3840, Height |-> 2160, RefreshRate |-> 60] >>

SUPPORTED_MODE_COUNT == Len(g_SupportedModes)

Min(a, b) == IF a < b THEN a ELSE b

\* lines 176-194 with the horizontal frequency kept in 16 bits
MonitorVideoSignalInfo_HSync16(i) ==
    [VideoStandard |-> "D3DKMDT_VMS_OTHER",
     TotalSize |-> [cx |-> g_SupportedModes[i + 1].Width,
                    cy |-> g_SupportedModes[i + 1].Height],
     ActiveSize |-> [cx |-> g_SupportedModes[i + 1].Width,
                     cy |-> g_SupportedModes[i + 1].Height],
     VSyncFreq |-> [Numerator |-> g_SupportedModes[i + 1].RefreshRate,
                    Denominator |-> 1],
     HSyncFreq |-> [Numerator |-> (g_SupportedModes[i + 1].RefreshRate
                                     * g_SupportedModes[i + 1].Height) % 65536,
                    Denominator |-> 1],
     PixelRate |-> g_SupportedModes[i + 1].Width * g_SupportedModes[i + 1].Height
                     * g_SupportedModes[i + 1].RefreshRate,
     ScanLineOrdering |-> "D3DDDI_VSSLO_PROGRESSIVE"]

\* lines 176-194: the video signal info written to default mode i (0-based as in
\* the source); the products are those of the table's entries, all below 2^31
MonitorVideoSignalInfo(i) ==
    [VideoStandard |-> "D3DKMDT_VMS_OTHER",
     TotalSize |-> [cx |-> g_SupportedModes[i + 1].Width,
                    cy |-> g_SupportedModes[i + 1].Height],
     ActiveSize |-> [cx |-> g_SupportedModes[i + 1].Width,
                     cy |-> g_SupportedModes[i + 1].Height],
     VSyncFreq |-> [Numerator |-> g_SupportedModes[i + 1].RefreshRate,
                    Denominator |-> 1],
     HSyncFreq |-> [Numerator |-> g_SupportedModes[i + 1].RefreshRate
                                    * g_SupportedModes[i + 1].Height,
                    Denominator |-> 1],
     PixelRate |-> g_SupportedModes[i + 1].Width * g_SupportedModes[i + 1].Height
                     * g_SupportedModes[i + 1].RefreshRate,
     ScanLineOrdering |-> "D3DDDI_VSSLO_PROGRESSIVE"]

\* lines 240-257 with the horizontal frequency taken from the width
TargetVideoSignalInfo_HSyncFromWidth(i) ==
    [MonitorVideoSignalInfo(i) EXCEPT
        !.HSyncFreq.Numerator = g_SupportedModes[i + 1].RefreshRate
                                  * g_SupportedModes[i + 1].Width]

\* lines 240-257: the video signal info written to target mode i
TargetVideoSignalInfo(i) ==
    [VideoStandard |-> "D3DKMDT_VMS_OTHER",
     TotalSize |-> [cx |-> g_SupportedModes[i + 1].Width,
                    cy |-> g_SupportedModes[i + 1].Height],
     ActiveSize |-> [cx |-> g_SupportedModes[i + 1].Width,
                     cy |-> g_SupportedModes[i + 1].Height],
     VSyncFreq |-> [Numerator |-> g_SupportedModes[i + 1].RefreshRate,
                    Denominator |-> 1],
     HSyncFreq |-> [Numerator |-> g_SupportedModes[i + 1].RefreshRate
                                    * g_SupportedModes[i + 1].Height,
                    Denominator |-> 1],
     PixelRate |-> g_SupportedModes[i + 1].Width * g_SupportedModes[i + 1].Height
                     * g_SupportedModes[i + 1].RefreshRate,
     ScanLineOrdering |-> "D3DDDI_VSSLO_PROGRESSIVE"]

\* lines 167-202: what the callback writes for DefaultMonitorModeBufferInputCount
GetDefaultModes(DefaultMonitorModeBufferInputCount) ==
    LET modeCount == Min(DefaultMonitorModeBufferInputCount, SUPPORTED_MODE_COUNT)
    IN [status |-> STATUS_SUCCESS,
        DefaultMonitorModeBufferOutputCount |-> modeCount,
        PreferredMonitorModeIdx |-> 0,
        pDefaultMonitorModes |->
            [i \in 0 .. modeCount - 1 |->
                [Origin |-> "IDDCX_MONITOR_MODE_ORIGIN_DRIVER",
                 MonitorVideoSignalInfo |-> MonitorVideoSignalInfo(i)]]]

\* lines 232-265: what the callback writes for TargetModeBufferInputCount
QueryTargetModes(TargetModeBufferInputCount) ==
    LET modeCount == Min(TargetModeBufferInputCount, SUPPORTED_MODE_COUNT)
    IN [status |-> STATUS_SUCCESS,
        TargetModeBufferOutputCount |-> modeCount,
        pTargetModes |->
            [i \in 0 .. modeCount - 1 |->
                [TargetVideoSignalInfo |-> TargetVideoSignalInfo(i)]]]

\* buffer sizes the host asks with: none, the table's size, and more than that
ModeRequests == {0, SUPPORTED_MODE_COUNT, SUPPORTED_MODE_COUNT + 1}

\* path counts the host commits
PathCounts == {0, 1, 2}

\* MonitorObject is unreferenced (lines 160 and 225): the callbacks do the same
\* for every monitor
ExpandScreenEvtMonitorGetDefaultModes(n) ==
    /\ Arrived # {}
    /\ NT_SUCCESS(GetDefaultModes(n).status)
    /\ UNCHANGED vars

ExpandScreenEvtMonitorQueryTargetModes(n) ==
    /\ Arrived # {}
    /\ NT_SUCCESS(QueryTargetModes(n).status)
    /\ UNCHANGED vars

\* Adapter.cpp lines 178-193 with a commit of no path refused
CommitModes_RejectEmpty(PathCount) ==
    IF PathCount = 0 THEN STATUS_INVALID_PARAMETER ELSE STATUS_SUCCESS

\* Adapter.cpp lines 178-193: every path count is accepted
CommitModes(PathCount) == STATUS_SUCCESS

ExpandScreenEvtAdapterCommitModes(PathCount) ==
    /\ NT_SUCCESS(CommitModes(PathCount))
    /\ UNCHANGED vars

(***************************************************************************)
(* GenerateEdid (Edid.cpp).  EdidBuffer is a function on 0 .. EDID_SIZE-1, *)
(* indexed as in the source.  Width and Height are UINT; the inputs drawn  *)
(* keep Width * Height * 60 below 2^31, so no product wraps.               *)
(***************************************************************************)
\* the (BYTE) cast
Byte(x) == x % 256

\* lines 87-91 with the division rounding to the nearest centimetre
PhysicalSizeCm_Nearest(Pixels) == Byte(((Pixels * 254) + 4800) \div 9600)

\* lines 87-91: (BYTE)(Pixels * 254 / 960 / 10)
PhysicalSizeCm(Pixels) == Byte(((Pixels * 254) \div 960) \div 10)

\* line 120 with the clock in kHz units
PixelClock_KHz(Width, Height) == (Width * Height * 60) \div 1000

\* line 120: the pixel clock in 10 kHz units
PixelClock(Width, Height) == (Width * Height * 60) \div 10000

\* line 142: "ExpandScreen"
displayName == <<69, 120, 112, 97, 110, 100, 83, 99, 114, 101, 101, 110>>

\* lines 48-154: the byte at index k before the checksum is stored; the bytes no
\* assignment reaches keep the zero of RtlZeroMemory (line 48)
EdidField(k, Width, Height) ==
    CASE k = 0 -> 0
      [] k \in 1 .. 6 -> 255
      [] k = 7 -> 0
      [] k = 8 -> 21
      [] k = 9 -> 48
      [] k = 10 -> 1
      [] k = 12 -> 1
      [] k = 16 -> 1
      [] k = 17 -> 36
      [] k = 18 -> 1
      [] k = 19 -> 4
      [] k = 20 -> 149
      [] k = 21 -> PhysicalSizeCm(Width)
      [] k = 22 -> PhysicalSizeCm(Height)
      [] k = 23 -> 120
      [] k = 24 -> 42
      [] k = 25 -> 13
      [] k = 26 -> 201
      [] k = 27 -> 160
      [] k = 28 -> 87
      [] k = 29 -> 71
      [] k = 30 -> 152
      [] k = 31 -> 39
      [] k = 32 -> 18
      [] k = 33 -> 72
      [] k = 34 -> 76
      [] k = 54 -> Byte(PixelClock(Width, Height) % 256)
      [] k = 55 -> Byte((PixelClock(Width, Height) \div 256) % 256)
      [] k = 56 -> Byte(Width % 256)
      [] k = 57 -> 48
      [] k = 58 -> Byte(((Width \div 256) % 16) * 16)
      [] k = 59 -> Byte(Height % 256)
      [] k = 60 -> 30
      [] k = 61 -> Byte(((Height \div 256) % 16) * 16)
      [] k = 75 -> 252
      [] k \in 77 .. 76 + Len(displayName) -> displayName[k - 76]
      [] k = 77 + Len(displayName) -> 10
      [] OTHER -> 0

\* lines 157-161: the BYTE sum of EdidBuffer[lo .. hi]; the loop's additions are
\* grouped in halves, which addition modulo 256 allows
RECURSIVE ChecksumLoop(_, _, _)
ChecksumLoop(EdidBuffer, lo, hi) ==
    IF lo > hi THEN 0
    ELSE IF lo = hi THEN Byte(EdidBuffer[lo])
    ELSE Byte(ChecksumLoop(EdidBuffer, lo, (lo + hi) \div 2)
              + ChecksumLoop(EdidBuffer, (lo + hi) \div 2 + 1, hi))

\* line 162 with the one's complement of the sum
ChecksumByte_OnesComplement(checksum) == Byte(255 - checksum)

\* line 162: (BYTE)(256 - checksum)
ChecksumByte(checksum) == Byte(256 - checksum)

\* lines 35-168: the status returned and the buffer as GenerateEdid leaves it
GenerateEdid(BufferIsNull, Width, Height) ==
    IF BufferIsNull
    THEN [status |-> STATUS_INVALID_PARAMETER, EdidBuffer |-> <<>>]
    ELSE LET fields == [k \in 0 .. EDID_SIZE - 1 |-> EdidField(k, Width, Height)]
         IN [status |-> STATUS_SUCCESS,
             EdidBuffer |->
                 [fields EXCEPT ![127] = ChecksumByte(ChecksumLoop(fields, 0, 126))]]

\* Monitor.cpp lines 64-79: the description CreateMonitor submits with the buffer
MonitorDescription(EdidBuffer) ==
    [Type |-> "IDDCX_MONITOR_DESCRIPTION_TYPE_EDID", DataSize |-> EDID_SIZE,
     pData |-> EdidBuffer]

GenerateEdid_Apply ==
    /\ edid.pc = "idle"
    /\ LET r == GenerateEdid(edid.BufferIsNull, edid.Width, edid.Height)
       IN edid' = [edid EXCEPT !.pc = "done", !.status = r.status,
                               !.EdidBuffer = r.EdidBuffer]
    /\ UNCHANGED <<driverVars, frameVars, swapVars, deviceVars, modeOut, createRuns>>

(***************************************************************************)
(* The mode callbacks as functions of the buffer size the host passes: the *)
(* host asks either callback with any size, and modeOut keeps what each    *)
(* one wrote last.                                                         *)
(***************************************************************************)
GetDefaultModes_Apply(n) ==
    /\ modeOut' = [modeOut EXCEPT !.DefaultRequest = n,
                                  !.Default = <<GetDefaultModes(n)>>]
    /\ UNCHANGED <<driverVars, frameVars, swapVars, deviceVars, edid, createRuns>>

QueryTargetModes_Apply(n) ==
    /\ modeOut' = [modeOut EXCEPT !.TargetRequest = n,
                                  !.Target = <<QueryTargetModes(n)>>]
    /\ UNCHANGED <<driverVars, frameVars, swapVars, deviceVars, edid, createRuns>>

\* Adapter.cpp lines 178-193: the host commits PathCount paths; modeOut keeps the
\* status returned to it and the number of commits so far
CommitModes_Apply(PathCount) ==
    /\ modeOut.CommitCalls < MaxCommits
    /\ modeOut' = [modeOut EXCEPT !.CommitCalls = @ + 1,
                                  !.CommitPathCount = PathCount,
                                  !.CommitStatus = <<CommitModes(PathCount)>>]
    /\ UNCHANGED <<driverVars, frameVars, swapVars, deviceVars, edid, createRuns>>

(***************************************************************************)
(* One create-monitor request as a function of its input record, the state *)
(* it starts in and the host's answers: the path of                        *)
(* ExpandScreenEvtIoDeviceControl (Ioctl.cpp lines 110-172 and 221) through *)
(* CreateMonitor (Monitor.cpp lines 41-138), run to completion.             *)
(***************************************************************************)
\* EXPANDSCREEN_CREATE_MONITOR_INPUT records a caller sends
CreateInputs ==
    {[Width |-> 1920, Height |-> 1080, RefreshRate |-> 60],
     [Width |-> 1280, Height |-> 720, RefreshRate |-> 60],
     [Width |-> 3840, Height |-> 2160, RefreshRate |-> 120]}

\* the counter and count the request starts with: a fresh adapter, and one with
\* three monitors
CreatePreStates ==
    {[g_MonitorIdCounter |-> 0, MonitorCount |-> 0],
     [g_MonitorIdCounter |-> 5, MonitorCount |-> 3]}

\* whether the framework finds the two buffers, and the host's answers to
\* IddCxMonitorCreate, IddCxMonitorSetCallbacks and IddCxMonitorArrival
CreateHostResponses ==
    [inputOk : BOOLEAN, outputOk : BOOLEAN,
     IddCxMonitorCreate : {STATUS_SUCCESS} \cup HostFailures,
     IddCxMonitorSetCallbacks : {STATUS_SUCCESS} \cup HostFailures,
     IddCxMonitorArrival : {STATUS_SUCCESS} \cup HostFailures]

\* Monitor.cpp line 70 with the descriptor generated for the requested size
CreateMonitorEdid_FromInput(pInput) == GenerateEdid(FALSE, pInput.Width, pInput.Height)

\* Monitor.cpp line 70: GenerateEdid(edidData, 1920, 1080); pInput is read by the
\* trace at Ioctl.cpp lines 144-146 only and is not passed to CreateMonitor
CreateMonitorEdid(pInput) == GenerateEdid(FALSE, 1920, 1080)

\* Ioctl.cpp lines 110-172 and 221: the counter, the count, the description
\* submitted to the host, the context of the monitor created (if any) and the
\* completion of the request
CreateMonitorRequest(pInput, pre, host) ==
    IF ~(host.inputOk /\ host.outputOk)
    THEN [g_MonitorIdCounter |-> pre.g_MonitorIdCounter,
          MonitorCount |-> pre.MonitorCount,
          MonitorDescription |-> <<>>,
          monitor |-> <<>>,
          completion |-> [IoControlCode |-> IOCTL_EXPANDSCREEN_CREATE_MONITOR,
                          status |-> STATUS_BUFFER_TOO_SMALL,
                          bytesReturned |-> 0, out |-> <<>>,
                          createStatus |-> <<>>]]
    ELSE LET ConnectorIndex == InterlockedIncrement(pre.g_MonitorIdCounter)
             created == NT_SUCCESS(host.IddCxMonitorCreate)
             callbacks == created /\ NT_SUCCESS(host.IddCxMonitorSetCallbacks)
             arrived == callbacks /\ NT_SUCCESS(host.IddCxMonitorArrival)
             status == IF ~created THEN host.IddCxMonitorCreate
                       ELSE IF ~callbacks THEN host.IddCxMonitorSetCallbacks
                       ELSE IF ~arrived THEN host.IddCxMonitorArrival
                       ELSE STATUS_SUCCESS
             MonitorId == InterlockedIncrement(ConnectorIndex)
         IN [g_MonitorIdCounter |-> IF NT_SUCCESS(status) THEN MonitorId
                                    ELSE ConnectorIndex,
             MonitorCount |-> CountAfterCreate(status, pre.MonitorCount),
             MonitorDescription |->
                 <<MonitorDescription(CreateMonitorEdid(pInput).EdidBuffer)>>,
             monitor |->
                 IF created
                 THEN <<[NewMonitorContext(ConnectorIndex) EXCEPT
                            !.callbacks = callbacks, !.arrived = arrived]>>
                 ELSE <<>>,
             completion |->
                 IF NT_SUCCESS(status)
                 THEN [IoControlCode |-> IOCTL_EXPANDSCREEN_CREATE_MONITOR,
                       status |-> STATUS_SUCCESS,
                       bytesReturned |-> SIZEOF_CREATE_MONITOR_OUTPUT,
                       out |-> <<CreateSucceededOutput(MonitorId)>>,
                       createStatus |-> <<status>>]
                 ELSE [IoControlCode |-> IOCTL_EXPANDSCREEN_CREATE_MONITOR,
                       status |-> STATUS_SUCCESS,
                       bytesReturned |-> 0,
                       out |-> <<CreateFailedOutput(status)>>,
                       createStatus |-> <<status>>]]

\* two requests with inputs A and B start in the same state and get the same
\* answers from the host
InitCreateInput ==
    /\ device = DeviceAdded
    /\ edid = NoEdid
    /\ modeOut = NoModes
    /\ createRuns \in [pc : {"idle"}, A : CreateInputs, B : CreateInputs,
                        pre : CreatePreStates, host : CreateHostResponses,
                        outA : {<<>>}, outB : {<<>>}]
    /\ NoMonitorsYet

CreateMonitorRequest_Apply ==
    /\ createRuns.pc = "idle"
    /\ createRuns.A # <<>>
    /\ createRuns' =
         [createRuns EXCEPT
            !.pc = "done",
            !.outA = <<CreateMonitorRequest(createRuns.A, createRuns.pre,
                                            createRuns.host)>>,
            !.outB = <<CreateMonitorRequest(createRuns.B, createRuns.pre,
                                            createRuns.host)>>]
    /\ UNCHANGED <<driverVars, frameVars, swapVars, deviceVars, edid, modeOut>>

(***************************************************************************)
(* ExpandScreenEvtDeviceAdd (Driver.cpp) and InitializeIddCxAdapter        *)
(* (Adapter.cpp), one step per call into the framework or the host.  The   *)
(* store at Adapter.cpp line 82 names deviceContext, which is read as the  *)
(* DeviceContext parameter.                                                *)
(***************************************************************************)
\* the driver state no step of device-add touches
UnchangedByDeviceAdd ==
    UNCHANGED <<driverVars, frameVars, swapVars, bufferVars>>

\* Driver.cpp lines 99-140: WdfDeviceCreate, then the zeroed device context
ExpandScreenEvtDeviceAdd_WdfDeviceCreate ==
    /\ device.pc = "notadded"
    /\ \E status \in {STATUS_SUCCESS} \cup HostFailures :
         device' = IF NT_SUCCESS(status)
                   THEN [device EXCEPT !.pc = "adapterinit", !.Adapter = NULL]
                   ELSE [device EXCEPT !.pc = "failed", !.status = status,
                                       !.failedAt = "WdfDeviceCreate"]
    /\ UnchangedByDeviceAdd

\* Adapter.cpp lines 81-82: the adapter object is saved in the device context
AdapterStored(ctx, AdapterObject) == [ctx EXCEPT !.Adapter = AdapterObject]

\* Adapter.cpp lines 36-87: IddCxAdapterInitAsync
InitializeIddCxAdapter_IddCxAdapterInitAsync ==
    /\ device.pc = "adapterinit"
    /\ \E status \in {STATUS_SUCCESS} \cup HostFailures :
         device' = IF NT_SUCCESS(status)
                   THEN [AdapterStored(device, 1) EXCEPT !.pc = "setcallbacks"]
                   ELSE [device EXCEPT !.pc = "failed", !.status = status,
                                       !.failedAt = "IddCxAdapterInitAsync"]
    /\ UnchangedByDeviceAdd

\* Adapter.cpp lines 89-111: IddCxAdapterInitSetCallbacks and the return
InitializeIddCxAdapter_IddCxAdapterInitSetCallbacks ==
    /\ device.pc = "setcallbacks"
    /\ \E status \in {STATUS_SUCCESS} \cup HostFailures :
         device' = IF NT_SUCCESS(status)
                   THEN [device EXCEPT !.pc = "interface"]
                   ELSE [device EXCEPT !.pc = "failed", !.status = status,
                                       !.failedAt = "IddCxAdapterInitSetCallbacks"]
    /\ UnchangedByDeviceAdd

\* Driver.cpp lines 143-169: the result of InitializeIddCxAdapter was a success;
\* WdfDeviceCreateDeviceInterface and the return
ExpandScreenEvtDeviceAdd_CreateDeviceInterface ==
    /\ device.pc = "interface"
    /\ \E status \in {STATUS_SUCCESS} \cup HostFailures :
         device' = IF NT_SUCCESS(status)
                   THEN [device EXCEPT !.pc = "added"]
                   ELSE [device EXCEPT !.pc = "failed", !.status = status,
                                       !.failedAt = "WdfDeviceCreateDeviceInterface"]
    /\ UnchangedByDeviceAdd

\* Driver.cpp lines 246-266: the framework deletes the device object of a failed
\* device-add
ExpandScreenEvtDeviceCleanup ==
    /\ device.pc = "failed"
    /\ device.failedAt # "WdfDeviceCreate"
    /\ device' = [device EXCEPT !.pc = "removed", !.Adapter = NULL]
    /\ UnchangedByDeviceAdd

(***************************************************************************)
(* The specifications.  Spec: the adapter, the control plane and the       *)
(* monitor callbacks, with init-finished and a control request running     *)
(* concurrently.  SpecFramePump: the default monitor, its swap-chain       *)
(* callbacks and a worker in ProcessSwapChainFrame.                        *)
(***************************************************************************)
NextInitFinished ==
    \/ ExpandScreenEvtAdapterInitFinished_Enter
    \/ ExpandScreenEvtAdapterInitFinished_Return
    \/ CreateMonitor_IddCxMonitorCreate("InitFinished")
    \/ CreateMonitor_IddCxMonitorSetCallbacks("InitFinished")
    \/ CreateMonitor_IddCxMonitorArrival("InitFinished")

NextIoctl ==
    \/ ExpandScreenEvtIoDeviceControl_CreateMonitor
    \/ CreateMonitor_IddCxMonitorCreate("Ioctl")
    \/ CreateMonitor_IddCxMonitorSetCallbacks("Ioctl")
    \/ CreateMonitor_IddCxMonitorArrival("Ioctl")
    \/ ExpandScreenEvtIoDeviceControl_CreateReturned
    \/ ExpandScreenEvtIoDeviceControl_CreateOutput
    \/ ExpandScreenEvtIoDeviceControl_DestroyMonitor
    \/ ExpandScreenEvtIoDeviceControl_GetAdapterInfo
    \/ ExpandScreenEvtIoDeviceControl_Default

\* the host assigns a fresh swap chain to an arrived monitor, and unassigns from a
\* monitor it has assigned one to
NextSwapChain ==
    \/ \E m \in Arrived :
         /\ nextSwapChain <= MaxSwapChains
         /\ ExpandScreenEvtMonitorAssignSwapChain(m, nextSwapChain)
    \/ \E m \in Arrived :
         /\ monitors[m].IsActive
         /\ ExpandScreenEvtMonitorUnassignSwapChain(m)

NextModes ==
    \/ \E n \in ModeRequests : ExpandScreenEvtMonitorGetDefaultModes(n)
    \/ \E n \in ModeRequests : ExpandScreenEvtMonitorQueryTargetModes(n)
    \/ \E PathCount \in PathCounts : ExpandScreenEvtAdapterCommitModes(PathCount)

NextFrame ==
    \/ ProcessSwapChainFrame_Acquire
    \/ ProcessSwapChainFrame_Release

Next == NextInitFinished \/ NextIoctl \/ NextSwapChain \/ NextModes

Spec == Init /\ [][Next]_vars

NextFramePump == NextInitFinished \/ NextSwapChain \/ NextFrame

SpecFramePump == Init /\ [][NextFramePump]_vars

\* SpecFramePump with the scheduling the driver's code gives: a thread that is
\* inside init-finished, CreateMonitor or an iteration of ProcessSwapChainFrame
\* runs on to its return.  Nothing schedules a new iteration: no code of the
\* driver calls ProcessSwapChainFrame or creates a thread, a work item or a timer
\* (ExpandScreenEvtMonitorAssignSwapChain, Monitor.cpp lines 281-299, only stores
\* the handle), and SWAPCHAIN_CONTEXT.ProcessingThread is never written; so the
\* acquire step is possible and not fair.
SpecPumpStart ==
    /\ Init
    /\ [][NextFramePump]_vars
    /\ WF_vars(NextInitFinished)
    /\ WF_vars(ProcessSwapChainFrame_Release)

\* control requests and swap-chain callbacks on an adapter that has three monitors
SpecAtCap == InitAtCap /\ [][NextIoctl \/ NextSwapChain]_vars

\* the control plane and init-finished on adapters that have no monitor yet, three
\* monitors, and five monitors
InitAdapterInfo == Init \/ InitAtCap \/ InitAboveCap

SpecAdapterInfo == InitAdapterInfo /\ [][NextInitFinished \/ NextIoctl]_vars

\* the host commits modes at any time while monitors are created and swap chains
\* are assigned and unassigned
NextCommit == \E PathCount \in PathCounts : CommitModes_Apply(PathCount)

SpecCommit == Init /\ [][NextInitFinished \/ NextSwapChain \/ NextCommit]_vars

SpecCreateInput == InitCreateInput /\ [][CreateMonitorRequest_Apply]_vars

NextApplyModes ==
    \/ \E n \in 0 .. MaxModeRequest : GetDefaultModes_Apply(n)
    \/ \E n \in 0 .. MaxModeRequest : QueryTargetModes_Apply(n)

SpecModes == Init /\ [][NextApplyModes]_vars

SpecEdid == InitEdid /\ [][GenerateEdid_Apply]_vars

NextDeviceAdd ==
    \/ ExpandScreenEvtDeviceAdd_WdfDeviceCreate
    \/ InitializeIddCxAdapter_IddCxAdapterInitAsync
    \/ InitializeIddCxAdapter_IddCxAdapterInitSetCallbacks
    \/ ExpandScreenEvtDeviceAdd_CreateDeviceInterface
    \/ ExpandScreenEvtDeviceCleanup

\* the callbacks and requests of Next reach the driver once device-add has succeeded
NextDeviceAdded ==
    /\ device.pc = "added"
    /\ Next

SpecDeviceAdd == InitDeviceAdd /\ [][NextDeviceAdd \/ NextDeviceAdded]_vars

(***************************************************************************)
(* Properties.                                                             *)
(***************************************************************************)
CreateCompleted ==
    /\ completion.IoControlCode = IOCTL_EXPANDSCREEN_CREATE_MONITOR
    /\ completion.createStatus # <<>>

\* C1: when no frame iteration is in flight, the host has received as many release
\* calls as acquire calls that returned a buffer: one release per acquired buffer,
\* none for an iteration whose acquire returned no buffer.
C1_ReleasesEqualBuffersAcquired ==
    frame.pc = "idle" => releaseCount = acquiredCount

\* C2: no acquire or release call reaches the host on a swap-chain handle for which
\* unassignSwapChain has already returned.
C2_NoSwapChainCallAfterUnassign ==
    ~lastSwapCall.afterUnassign

\* C3: no acquire call is issued for a swap chain whose context has the
\* termination flag set.
C3_NoAcquireWithTerminateSet ==
    lastSwapCall.op = "acquire" => ~lastSwapCall.TerminateThread

\* C4: at every callback boundary, a monitor is active exactly when it stores a
\* swap-chain handle.
C4_ActiveIffSwapChain ==
    \A m \in DOMAIN monitors :
        monitors[m].IsActive <=> monitors[m].SwapChain # NULL

\* a monitor holds the second swap chain after the first one was unassigned
C4_Witness ==
    /\ 1 \in unassigned
    /\ \E m \in DOMAIN monitors : monitors[m].IsActive /\ monitors[m].SwapChain = 2
    /\ \E m \in DOMAIN monitors : monitors[m].arrived /\ ~monitors[m].IsActive

\* C5: the ids drawn from g_MonitorIdCounter (the connector index of every creation,
\* whether it then succeeds or fails, and the id a control request reports) are
\* strictly increasing in the order they are drawn, so none is assigned twice, and
\* every monitor's MonitorId is one of them.
C5_IdsStrictlyIncreasing ==
    /\ \A i, j \in DOMAIN idLog : i < j => idLog[i] < idLog[j]
    /\ \A m \in DOMAIN monitors :
         \E i \in DOMAIN idLog : idLog[i] = monitors[m].MonitorId

\* the default creation, a successful control-plane creation and one the host
\* refused have all returned
C5_Witness ==
    /\ Len(idLog) = 4
    /\ Len(monitors) = 2
    /\ MonitorCount = 2
    /\ \A c \in Callers : cm[c].pc = "idle"
    /\ ioctl.pc = "idle"

\* C6: creations that overlap in time hold pairwise distinct connector indices, and
\* no two monitors store the same MonitorId.
C6_ConcurrentIdsDistinct ==
    /\ \A m1, m2 \in DOMAIN monitors :
         m1 # m2 => monitors[m1].MonitorId # monitors[m2].MonitorId
    /\ (\A c \in Callers : cm[c].pc # "idle")
         => cm["InitFinished"].ConnectorIndex # cm["Ioctl"].ConnectorIndex

\* init-finished and a control request are inside CreateMonitor at the same time,
\* each with its monitor object created
C6_Witness ==
    \A c \in Callers : cm[c].pc \in {"setcb", "arrival"}

\* C7: MonitorCount is the number of successful creations minus the number of
\* successful destructions, less the creations that have returned success to a
\* caller which has not yet counted them; it is never negative.
C7_MonitorCountIsCreatesMinusDestroys ==
    /\ MonitorCount >= 0
    /\ MonitorCount =
         succCreates - succDestroys
         - Cardinality({c \in Callers : cm[c].pc = "ret" /\ NT_SUCCESS(cm[c].status)})

\* one creation failed, one succeeded, a swap chain is assigned and a destroy
\* request has completed
C7_Witness ==
    /\ MonitorCount = 1
    /\ Len(idLog) = 2
    /\ \A c \in Callers : cm[c].pc = "idle"
    /\ completion.IoControlCode = IOCTL_EXPANDSCREEN_DESTROY_MONITOR
    /\ \E m \in DOMAIN monitors : monitors[m].IsActive

\* C8: when CreateMonitor returns a failure, no monitor object made by that call
\* remains.
C8_FailedCreateLeavesNoMonitor ==
    \A c \in Callers :
        (cm[c].pc = "ret" /\ ~NT_SUCCESS(cm[c].status))
            => cm[c].Monitor \notin DOMAIN monitors

\* C9: the output record of a create-monitor request is (non-zero id, success) when
\* the creation succeeded and (0, the failing status) when it failed.
C9_OutputIdMatchesStatus ==
    (CreateCompleted /\ completion.out # <<>>) =>
        LET output == completion.out[1]
            status == completion.createStatus[1]
        IN /\ (output.MonitorId # 0) <=> NT_SUCCESS(output.Status)
           /\ IF NT_SUCCESS(status)
              THEN output.MonitorId # 0 /\ output.Status = STATUS_SUCCESS
              ELSE output.MonitorId = 0 /\ output.Status = status

\* a failed control-plane creation has completed after a successful one
C9_Witness ==
    /\ CreateCompleted
    /\ completion.out # <<>>
    /\ ~NT_SUCCESS(completion.createStatus[1])
    /\ MonitorCount = 2

\* C10: a create-monitor request whose creation failed either completes with the
\* failing status or returns the output record that carries it.
C10_CreateFailureReported ==
    (CreateCompleted /\ ~NT_SUCCESS(completion.createStatus[1])) =>
        \/ completion.status = completion.createStatus[1]
        \/ /\ completion.out # <<>>
           /\ completion.out[1].Status = completion.createStatus[1]
           /\ completion.bytesReturned = SIZEOF_CREATE_MONITOR_OUTPUT

\* C11: the MonitorId in the output of a successful create-monitor request is the
\* MonitorId stored in the context of the monitor that request created.
C11_OutputIdIsCreatedMonitorId ==
    (/\ CreateCompleted
     /\ NT_SUCCESS(completion.createStatus[1])
     /\ ioctl.pc = "idle"
     /\ cm["Ioctl"].pc = "idle")
        => completion.out[1].MonitorId = monitors[cm["Ioctl"].Monitor].MonitorId

\* C12: init-finished called with a success status enters CreateMonitor once,
\* drawing one id; when the creation returns success MonitorCount grows by exactly 1
\* and success is returned, when it returns a failure that status is returned
\* unchanged and MonitorCount stays; no second creation follows.
C12_InitFinishedCreatesOneMonitor ==
    [][/\ (/\ init.pc = "notcalled"
           /\ init'.pc # "notcalled"
           /\ NT_SUCCESS(init'.AdapterInitStatus))
            => /\ init'.pc = "create"
               /\ cm'["InitFinished"].pc = "create"
               /\ Len(idLog') = Len(idLog) + 1
               /\ MonitorCount' = MonitorCount
       /\ (init.pc = "create" /\ init'.pc = "create")
            => cm'["InitFinished"].ConnectorIndex = cm["InitFinished"].ConnectorIndex
       /\ (init.pc = "create" /\ init'.pc = "done")
            => IF NT_SUCCESS(cm["InitFinished"].status)
               THEN MonitorCount' = MonitorCount + 1 /\ init'.ret = STATUS_SUCCESS
               ELSE MonitorCount' = MonitorCount
                    /\ init'.ret = cm["InitFinished"].status
       /\ init.pc = "done" => cm'["InitFinished"] = cm["InitFinished"]
      ]_vars

\* the default creation failed at the arrival notification and init-finished has
\* returned that failure, while a control request created a monitor
C12_Witness ==
    /\ init.pc = "done"
    /\ NT_SUCCESS(init.AdapterInitStatus)
    /\ ~NT_SUCCESS(init.ret)
    /\ cm["InitFinished"].Monitor \in DOMAIN monitors
    /\ monitors[cm["InitFinished"].Monitor].callbacks
    /\ MonitorCount = 1

\* C13: init-finished called with a failure status returns that status unchanged,
\* enters no creation, draws no id and changes neither MonitorCount nor any monitor.
C13_InitFinishedFailurePropagated ==
    [][/\ (/\ init.pc = "notcalled"
           /\ init'.pc # "notcalled"
           /\ ~NT_SUCCESS(init'.AdapterInitStatus))
            => /\ init'.pc = "done"
               /\ init'.ret = init'.AdapterInitStatus
               /\ UNCHANGED <<g_MonitorIdCounter, MonitorCount, monitors, cm, idLog>>
       /\ (init.pc = "done" /\ ~NT_SUCCESS(init.AdapterInitStatus))
            => cm'["InitFinished"] = IdleCreate
      ]_vars

\* init-finished has returned the host's failure and the only monitor is one a
\* control request created afterwards
C13_Witness ==
    /\ init.pc = "done"
    /\ init.AdapterInitStatus = STATUS_INSUFFICIENT_RESOURCES
    /\ init.ret = STATUS_INSUFFICIENT_RESOURCES
    /\ cm["InitFinished"] = IdleCreate
    /\ MonitorCount = 1
    /\ idLog = <<1, 2>>

\* C14: when InitializeIddCxAdapter has failed, at IddCxAdapterInitAsync or at
\* IddCxAdapterInitSetCallbacks, it has returned the host's status and the device
\* context stores no adapter handle.
C14_FailedAdapterInitStoresNoAdapter ==
    (/\ device.pc = "failed"
     /\ device.failedAt \in {"IddCxAdapterInitAsync", "IddCxAdapterInitSetCallbacks"})
        => /\ ~NT_SUCCESS(device.status)
           /\ device.Adapter = NULL

\* C15: whatever MonitorCount is, below, at or above the adapter's cap, a create
\* request whose CreateMonitor the host accepted adds 1 to MonitorCount and completes
\* with success and the output record.
C15_CreateNotGatedByCap ==
    [][/\ (/\ ioctl.pc = "create"
           /\ ioctl'.pc # "create"
           /\ NT_SUCCESS(cm["Ioctl"].status))
            => /\ MonitorCount' = MonitorCount + 1
               /\ ioctl'.pc = "output"
       /\ (ioctl.pc = "output" /\ ioctl'.pc # "output")
            => /\ completion'.status = STATUS_SUCCESS
               /\ completion'.bytesReturned = SIZEOF_CREATE_MONITOR_OUTPUT
               /\ completion'.out[1].Status = STATUS_SUCCESS
               /\ MonitorCount' = MonitorCount
      ]_vars

\* a fifth monitor has been created and counted on the adapter whose cap is 4
C15_Witness ==
    /\ MonitorCount = MaxMonitorsSupported + 1
    /\ Len(monitors) = MaxMonitorsSupported + 1
    /\ \A m \in DOMAIN monitors : monitors[m].arrived
    /\ CreateCompleted
    /\ NT_SUCCESS(completion.createStatus[1])
    /\ ioctl.pc = "idle"

\* C16: asked with the same buffer size n, the two mode callbacks return the same
\* number of entries, min(n, size of the mode table) and so never more than the
\* table holds, and entry by entry the same sizes, vertical and horizontal
\* frequencies, pixel rate and scan-line ordering.
C16_DefaultAndTargetModesAgree ==
    (modeOut.DefaultRequest >= 0 /\ modeOut.DefaultRequest = modeOut.TargetRequest) =>
        LET n == modeOut.DefaultRequest
            d == modeOut.Default[1]
            t == modeOut.Target[1]
            count == IF n <= Len(g_SupportedModes) THEN n ELSE Len(g_SupportedModes)
        IN /\ d.DefaultMonitorModeBufferOutputCount = count
           /\ t.TargetModeBufferOutputCount = count
           /\ DOMAIN d.pDefaultMonitorModes = 0 .. count - 1
           /\ DOMAIN t.pTargetModes = 0 .. count - 1
           /\ \A i \in 0 .. count - 1 :
                LET m == d.pDefaultMonitorModes[i].MonitorVideoSignalInfo
                    q == t.pTargetModes[i].TargetVideoSignalInfo
                IN /\ m.TotalSize = q.TotalSize
                   /\ m.ActiveSize = q.ActiveSize
                   /\ m.VSyncFreq = q.VSyncFreq
                   /\ m.HSyncFreq = q.HSyncFreq
                   /\ m.PixelRate = q.PixelRate
                   /\ m.ScanLineOrdering = q.ScanLineOrdering

\* both callbacks were asked with a buffer larger than the mode table
C16_Witness ==
    /\ modeOut.DefaultRequest = SUPPORTED_MODE_COUNT + 2
    /\ modeOut.TargetRequest = SUPPORTED_MODE_COUNT + 2
    /\ modeOut.Default[1].DefaultMonitorModeBufferOutputCount = SUPPORTED_MODE_COUNT
    /\ modeOut.Target[1].TargetModeBufferOutputCount = SUPPORTED_MODE_COUNT

\* the sum, as an integer, of bytes lo .. hi of a descriptor
RECURSIVE SumOfBytes(_, _, _)
SumOfBytes(EdidBuffer, lo, hi) ==
    IF lo > hi THEN 0
    ELSE IF lo = hi THEN EdidBuffer[lo]
    ELSE SumOfBytes(EdidBuffer, lo, (lo + hi) \div 2)
         + SumOfBytes(EdidBuffer, (lo + hi) \div 2 + 1, hi)

\* GenerateEdid has returned success
EdidGenerated ==
    /\ edid.pc = "done"
    /\ NT_SUCCESS(edid.status)

\* C17: in every descriptor GenerateEdid produces, byte 127 is (256 - S) mod 256
\* for S the sum of bytes 0..126, and bytes 0..127 sum to 0 modulo 256.
C17_EdidChecksum ==
    EdidGenerated =>
        LET S == SumOfBytes(edid.EdidBuffer, 0, 126)
        IN /\ edid.EdidBuffer[127] = (256 - (S % 256)) % 256
           /\ SumOfBytes(edid.EdidBuffer, 0, 127) % 256 = 0

\* the descriptor of the largest mode, whose checksum byte is not 0
C17_Witness ==
    /\ EdidGenerated
    /\ edid.Width = 3840
    /\ edid.Height = 2160
    /\ edid.EdidBuffer[127] # 0

\* C18 as amended: bytes 21 and 22 are width * 254 / 9600 and height * 254 / 9600
\* with the fraction dropped (integer division), whenever the result fits in a byte.
C18_PhysicalSizeTruncated ==
    EdidGenerated =>
        /\ (edid.Width * 254) \div 9600 < 256
             => edid.EdidBuffer[21] = (edid.Width * 254) \div 9600
        /\ (edid.Height * 254) \div 9600 < 256
             => edid.EdidBuffer[22] = (edid.Height * 254) \div 9600

\* the descriptor of 2560 x 1600: 67.7 cm and 42.3 cm are stored as 67 and 42
C18_Witness ==
    /\ EdidGenerated
    /\ edid.Width = 2560
    /\ edid.Height = 1600
    /\ edid.EdidBuffer[21] = 67
    /\ edid.EdidBuffer[22] = 42

\* C18 as stated: bytes 21 and 22 are width * 254 / 9600 and height * 254 / 9600
\* rounded to the nearest integer, whenever the result fits in a byte.
C18_PhysicalSizeRounded ==
    EdidGenerated =>
        /\ (edid.Width * 254 + 4800) \div 9600 < 256
             => edid.EdidBuffer[21] = (edid.Width * 254 + 4800) \div 9600
        /\ (edid.Height * 254 + 4800) \div 9600 < 256
             => edid.EdidBuffer[22] = (edid.Height * 254 + 4800) \div 9600

\* C19: the descriptor of 1920 x 1080 has 12441 in bytes 54..55 (little-endian)
\* and 50 and 28 in bytes 21 and 22.
C19_Edid1920x1080 ==
    (EdidGenerated /\ edid.Width = 1920 /\ edid.Height = 1080) =>
        /\ edid.EdidBuffer[54] + 256 * edid.EdidBuffer[55] = 12441
        /\ edid.EdidBuffer[21] = 50
        /\ edid.EdidBuffer[22] = 28

\* GenerateEdid has produced the descriptor CreateMonitor asks for
C19_Witness ==
    /\ EdidGenerated
    /\ edid.Width = 1920
    /\ edid.Height = 1080
    /\ edid.EdidBuffer[56] = 128
    /\ edid.EdidBuffer[59] = 56

\* C20: the block GenerateEdid writes, and the description CreateMonitor submits
\* with it, are exactly 128 bytes long.
C20_DescriptorIs128Bytes ==
    EdidGenerated =>
        /\ Cardinality(DOMAIN edid.EdidBuffer) = 128
        /\ MonitorDescription(edid.EdidBuffer).DataSize = 128

\* C21: whatever the adapter's monitor count (none, or more than four), a
\* get-adapter-info request that succeeds reports 4 as the most monitors supported
\* and the adapter's current monitor count, and changes no adapter or monitor state.
C21_AdapterInfoReportsCountAndCap ==
    [][(/\ ioctl'.requests = ioctl.requests + 1
        /\ ioctl'.pc = "idle"
        /\ completion'.IoControlCode = IOCTL_EXPANDSCREEN_GET_ADAPTER_INFO
        /\ NT_SUCCESS(completion'.status))
       => /\ completion'.bytesReturned = SIZEOF_ADAPTER_INFO
          /\ Len(completion'.out) = 1
          /\ completion'.out[1].MaxMonitors = 4
          /\ completion'.out[1].MonitorCount = MonitorCount
          /\ UNCHANGED <<g_MonitorIdCounter, MonitorCount, monitors, cm, init, idLog,
                         succCreates, succDestroys>>
      ]_vars

\* a sixth monitor was created and the request reported six monitors of four
C21_Witness ==
    /\ completion.IoControlCode = IOCTL_EXPANDSCREEN_GET_ADAPTER_INFO
    /\ NT_SUCCESS(completion.status)
    /\ completion.out = <<[MonitorCount |-> MaxMonitorsSupported + 2, MaxMonitors |-> 4]>>
    /\ MonitorCount = MaxMonitorsSupported + 2
    /\ Len(monitors) = MaxMonitorsSupported + 2

\* C22: a destroy-monitor request completes with STATUS_NOT_IMPLEMENTED and returns
\* no bytes, and leaves the monitor count, the id counter and every monitor (its id,
\* IsActive and swap-chain handle) as they were before the request.
C22_DestroyNotImplemented ==
    [][(/\ ioctl'.requests = ioctl.requests + 1
        /\ ioctl'.pc = "idle"
        /\ completion'.IoControlCode = IOCTL_EXPANDSCREEN_DESTROY_MONITOR)
       => /\ completion'.status = STATUS_NOT_IMPLEMENTED
          /\ completion'.bytesReturned = 0
          /\ succDestroys' = succDestroys
          /\ UNCHANGED <<g_MonitorIdCounter, MonitorCount, monitors, cm, init, idLog,
                         succCreates>>
      ]_vars

\* a destroy request has completed on an adapter whose monitor holds a swap chain
C22_Witness ==
    /\ completion = DestroyMonitorCompletion
    /\ ioctl.requests >= 1
    /\ MonitorCount >= 1
    /\ \E m \in DOMAIN monitors : monitors[m].IsActive /\ monitors[m].SwapChain # NULL

\* C23: a request whose control code is none of create-monitor, destroy-monitor and
\* get-adapter-info completes with STATUS_INVALID_DEVICE_REQUEST and no bytes, and
\* leaves the adapter's and the monitors' state as it was.
C23_UnknownRequestRejected ==
    [][(/\ ioctl'.requests = ioctl.requests + 1
        /\ ioctl'.pc = "idle"
        /\ completion'.IoControlCode \notin DefinedCodes)
       => /\ completion'.status = STATUS_INVALID_DEVICE_REQUEST
          /\ ~NT_SUCCESS(completion'.status)
          /\ completion'.bytesReturned = 0
          /\ completion'.out = <<>>
          /\ UNCHANGED <<g_MonitorIdCounter, MonitorCount, monitors, cm, init, idLog,
                         succCreates, succDestroys>>
      ]_vars

\* a request with an undefined code was rejected on an adapter that has a monitor
C23_Witness ==
    /\ completion = UnknownRequestCompletion(IOCTL_UNDEFINED)
    /\ ioctl.requests >= 1
    /\ MonitorCount >= 1
    /\ Arrived # {}

\* C24: commit-modes returns success for every path count, in every adapter state
\* and at every call, and leaves the monitor count, the id counter and every
\* monitor's state unchanged.
C24_CommitModesAlwaysAccepted ==
    [][modeOut'.CommitCalls = modeOut.CommitCalls + 1
       => /\ modeOut'.CommitStatus = <<STATUS_SUCCESS>>
          /\ UNCHANGED <<g_MonitorIdCounter, MonitorCount, monitors, cm, init,
                         unassigned, nextSwapChain>>
      ]_vars

\* a second commit, of no path, was accepted while a monitor held a swap chain
C24_Witness ==
    /\ modeOut.CommitCalls = 2
    /\ modeOut.CommitPathCount = 0
    /\ modeOut.CommitStatus = <<STATUS_SUCCESS>>
    /\ MonitorCount = 1
    /\ \E m \in DOMAIN monitors : monitors[m].IsActive

\* C25: an iteration of ProcessSwapChainFrame whose acquire call was answered with
\* STATUS_PENDING has returned that status: it is not at the dirty-rectangle test
\* and has no release call ahead of it.
C25_PendingAcquireReturns ==
    (frame.calls > 0 /\ frame.status = STATUS_PENDING) => frame.pc = "idle"

\* a monitor stores swap-chain handle h
Assigned(h) == \E m \in DOMAIN monitors : monitors[m].SwapChain = h

\* the host has just received an acquire call on handle h
AcquireOn(h) == lastSwapCall.op = "acquire" /\ lastSwapCall.SwapChain = h

\* handle h was assigned and no monitor stores it any more: it was unassigned, or
\* the monitor was assigned another swap chain in its place
Released(h) == h \in unassigned \/ (h < nextSwapChain /\ ~Assigned(h))

\* C26: every swap-chain handle that is assigned to a monitor is eventually the
\* handle of an acquire call, unless the monitor gives it up first (handles are
\* fresh, so an acquire call on a handle can only follow its assignment).
C26_AssignLeadsToAcquire ==
    \A h \in 1 .. MaxSwapChains :
        <>Assigned(h) => <>(AcquireOn(h) \/ Released(h))

\* C27: within one creation the host is called in the order IddCxMonitorCreate,
\* IddCxMonitorSetCallbacks, IddCxMonitorArrival, each call made only when the one
\* before it succeeded: a creation about to register callbacks has its monitor object,
\* a creation about to notify arrival has its callbacks registered, no monitor has
\* arrived without its object and callbacks, and CreateMonitor returns success only
\* for a monitor that was created, given its callbacks and arrived.
C27_HostCallsInOrder ==
    /\ \A m \in DOMAIN monitors : monitors[m].arrived => monitors[m].callbacks
    /\ \A c \in Callers :
         /\ cm[c].pc = "create" => cm[c].Monitor = NULL
         /\ cm[c].pc = "setcb" =>
               /\ cm[c].Monitor \in DOMAIN monitors
               /\ ~monitors[cm[c].Monitor].callbacks
               /\ ~monitors[cm[c].Monitor].arrived
         /\ cm[c].pc = "arrival" =>
               /\ cm[c].Monitor \in DOMAIN monitors
               /\ monitors[cm[c].Monitor].callbacks
               /\ ~monitors[cm[c].Monitor].arrived
         /\ cm[c].pc = "ret" =>
               IF NT_SUCCESS(cm[c].status)
               THEN /\ cm[c].Monitor \in DOMAIN monitors
                    /\ monitors[cm[c].Monitor].callbacks
                    /\ monitors[cm[c].Monitor].arrived
               ELSE \/ cm[c].Monitor = NULL
                    \/ /\ cm[c].Monitor \in DOMAIN monitors
                       /\ ~monitors[cm[c].Monitor].arrived

\* one creation is returning success after all three calls while the other creation
\* is returning the failure of its callback registration, its monitor not arrived
C27_Witness ==
    \E c, d \in Callers :
        /\ cm[c].pc = "ret" /\ NT_SUCCESS(cm[c].status)
        /\ monitors[cm[c].Monitor].arrived
        /\ cm[d].pc = "ret" /\ ~NT_SUCCESS(cm[d].status)
        /\ cm[d].Monitor \in DOMAIN monitors
        /\ ~monitors[cm[d].Monitor].callbacks
        /\ ~monitors[cm[d].Monitor].arrived

\* a step of ExpandScreenEvtMonitorAssignSwapChain or of
\* ExpandScreenEvtMonitorUnassignSwapChain: the host hands out a handle, or a
\* monitor gives one up
SwapChainCallbackStep ==
    nextSwapChain' # nextSwapChain \/ unassigned' # unassigned

\* C28: an assign or unassign callback changes the IsActive flag and swap-chain
\* handle of one monitor and nothing else: every other monitor's context, every
\* monitor's id, the monitor count and the id counter are unchanged, in every
\* interleaving of the callbacks on different monitors.
C28_SwapChainCallbacksAreLocal ==
    [][SwapChainCallbackStep
       => /\ DOMAIN monitors' = DOMAIN monitors
          /\ \E m \in DOMAIN monitors :
                /\ \A k \in DOMAIN monitors \ {m} : monitors'[k] = monitors[k]
                /\ monitors'[m] = [monitors[m] EXCEPT
                                      !.IsActive = monitors'[m].IsActive,
                                      !.SwapChain = monitors'[m].SwapChain]
          /\ \A k \in DOMAIN monitors : monitors'[k].MonitorId = monitors[k].MonitorId
          /\ UNCHANGED <<g_MonitorIdCounter, MonitorCount, cm, init, idLog>>
      ]_vars

\* two monitors hold the two swap chains, after callbacks on both of them
C28_Witness ==
    \E m, k \in DOMAIN monitors :
        /\ m # k
        /\ monitors[m].IsActive /\ monitors[m].SwapChain = 1
        /\ monitors[k].IsActive /\ monitors[k].SwapChain = 2

\* x is a value of an unsigned 32-bit field
FitsUINT(x) == x >= 0 /\ x \div 65536 < 65536

\* what the claim requires of the signal info written for entry i of the mode table
ExactSignalInfo(info, i) ==
    LET mode == g_SupportedModes[i + 1]
    IN /\ info.ActiveSize = [cx |-> mode.Width, cy |-> mode.Height]
       /\ info.VSyncFreq = [Numerator |-> mode.RefreshRate, Denominator |-> 1]
       /\ info.HSyncFreq = [Numerator |-> mode.RefreshRate * mode.Height,
                            Denominator |-> 1]
       /\ FitsUINT(mode.RefreshRate * mode.Height)
       /\ info.PixelRate = mode.Width * mode.Height * mode.RefreshRate
       /\ FitsUINT(mode.Width * mode.Height * mode.RefreshRate)
       /\ info.ScanLineOrdering = "D3DDDI_VSSLO_PROGRESSIVE"

\* C29: every entry either mode callback returns carries, for the entry of the mode
\* table at the same index, the refresh rate as vertical frequency, refresh rate x
\* height as horizontal frequency and width x height x refresh rate as pixel rate,
\* exactly: the products are below 2^32, so neither the 32-bit horizontal
\* frequency nor the 64-bit pixel rate wraps.
C29_ModeTimingsExact ==
    /\ modeOut.DefaultRequest >= 0 =>
          \A i \in DOMAIN modeOut.Default[1].pDefaultMonitorModes :
              /\ i < SUPPORTED_MODE_COUNT
              /\ ExactSignalInfo(
                     modeOut.Default[1].pDefaultMonitorModes[i].MonitorVideoSignalInfo, i)
    /\ modeOut.TargetRequest >= 0 =>
          \A i \in DOMAIN modeOut.Target[1].pTargetModes :
              /\ i < SUPPORTED_MODE_COUNT
              /\ ExactSignalInfo(
                     modeOut.Target[1].pTargetModes[i].TargetVideoSignalInfo, i)

\* both callbacks have returned the whole table, the 120 Hz entry and the
\* 3840 x 2160 entry with the largest pixel rate included
C29_Witness ==
    /\ modeOut.DefaultRequest = SUPPORTED_MODE_COUNT
    /\ modeOut.TargetRequest = MaxModeRequest
    /\ modeOut.Default[1].pDefaultMonitorModes[1].MonitorVideoSignalInfo.HSyncFreq.Numerator
         = 129600
    /\ modeOut.Target[1].pTargetModes[4].TargetVideoSignalInfo.PixelRate = 497664000

\* C30: two create-monitor requests that start in the same state and get the same
\* answers from the host end the same way whatever Width, Height and RefreshRate
\* each one carries: the same descriptor, which is the one of 1920 x 1080, the same
\* monitor context, the same output and completion, the same counter and count.
C30_CreateInputHasNoEffect ==
    createRuns.pc = "done" =>
        /\ createRuns.outA = createRuns.outB
        /\ \A d \in DOMAIN createRuns.outA[1].MonitorDescription :
              createRuns.outA[1].MonitorDescription[d].pData
                = GenerateEdid(FALSE, 1920, 1080).EdidBuffer

\* a request for 1280 x 720 and one for 3840 x 2160 at 120 Hz have both created a
\* monitor on the adapter that had three
C30_Witness ==
    /\ createRuns.pc = "done"
    /\ createRuns.A = [Width |-> 1280, Height |-> 720, RefreshRate |-> 60]
    /\ createRuns.B = [Width |-> 3840, Height |-> 2160, RefreshRate |-> 120]
    /\ createRuns.pre.MonitorCount = 3
    /\ createRuns.outA[1].monitor # <<>>
    /\ createRuns.outA[1].monitor[1].arrived
    /\ createRuns.outA[1].MonitorCount = 4
    /\ createRuns.outB[1].completion.bytesReturned = SIZEOF_CREATE_MONITOR_OUTPUT

====
